---------------------------- MODULE Spec2Model ----------------------------
(***************************************************************************)
(* Conversation session managers of the postal analytics frontends.        *)
(*                                                                         *)
(* Two chat pages exist in the repository:                                 *)
(*   - the conversation chat page (front app, handleSubmit), page "conv";  *)
(*   - the file chat page (rag frontend, handleSendMessage), page "file".  *)
(* Each behaviour mounts one of them (variable page); the variables of the *)
(* page that is not mounted keep their initial values.  The history page   *)
(* (page "history") has a specification of its own, SpecHistory.           *)
(*                                                                         *)
(* Every handler runs to its next await in one action; every backend       *)
(* response is an action of its own that runs the continuation up to the   *)
(* next await, with the values the handler's closure captured when it was  *)
(* invoked.  Event handlers read the state of the latest render.           *)
(***************************************************************************)
EXTENDS Integers, Sequences, FiniteSets, Bags, TLC

\* ------------------------------------------------------------------ bounds
MaxSends == 2
MaxConvs == 3
MaxSwitch == 2
MaxFileChanges == 1
MaxNewConv == 1
MaxHist == 2
MaxProviderChanges == 1
MaxHeaders == 3
MaxRecords == 3
MaxToasts == 3

\* --------------------------------------------------------------- constants
Null == "null"
Texts == {"", " ", "q"}
Apology == "Sorry, I encountered an error. Please try again."
Answer == "answer"

\* "  ".trim() is "": the only blank text of the model is " "
Trim(t) == IF t = " " THEN "" ELSE t

\* showToast(message, type) called by a page: one more notice
Notify(bag, m) == bag (+) SetToBag({m})
Range(s) == {s[i] : i \in DOMAIN s}

VARIABLES
  page,                   \* which part runs: a chat page, the history page, the toast
                          \* provider or the edge proxy
  lastEvent,              \* (history) the last handler or continuation that ran,
                          \* typing and the provider menu apart
  sends,                  \* (history) number of sends accepted so far
  chatReqs,               \* (history) number of chat requests issued so far
  srvConvs,               \* the conversations the backend holds, newest first
  \* conversation chat page
  message, messagesS, isLoadingS, conversations, currentConversationId,
  reqsS, nextRid, epochS, newConvs,
  \* file chat page
  fileId,                 \* the route parameter of the URL
  files, selectedFile, selectedFileName, messages, input, isLoading,
  conversationId, embeddingProvider, reqs,
  notices,                \* the bag of messages the page has passed to showToast
  epoch,                  \* (history) number of handleFileChange calls so far
  convEpoch,              \* (history) epoch of the call that set conversationId
  providerChanges,        \* (history) number of provider changes so far
  lastHistory,            \* (history) the records the last successful load returned
  lastProvider,           \* (history) the embedding_provider of the chat response the
                          \* last continuation handled, Null after any other one
  \* history page
  conversationsH,         \* the state conversations of the history page
  isLoadingH,             \* the state isLoading of the history page
  pcH,                    \* the await fetchConversations of the history page is at
  conversationsData,      \* the headers getUserConversations returned
  historyData,            \* (history) the records getUserHistory returned
  noticesH,               \* the bag of messages the history page passed to showToast
  \* toast provider
  toastVariant,           \* which ToastContext.tsx: ids from nextId or from randomUUID
  toasts, nextId,         \* the states of ToastProvider
  timers,                 \* the pending setTimeout callbacks, each with its id
  raised,                 \* (history) number of showToast calls so far
  pcT,                    \* the await the handler that raises the toasts is at
  closureNextId,          \* the nextId of the render whose showToast the handler holds
  \* edge proxy
  route, reqToken, reqBody, \* the request: its route, Authorization header and body
  pcP,                    \* the await the route handler is at
  fwdToken,               \* the Authorization header of the fetch to the backend
  backendCalls,           \* (history) number of fetches to the backend
  beStatus, beBody,       \* (history) the status and body of the backend's answer
  respStatus, respError   \* the response of the route

varsS == <<message, messagesS, isLoadingS, conversations, currentConversationId,
           reqsS, epochS, newConvs>>
varsF == <<fileId, files, selectedFile, selectedFileName, messages, input, isLoading,
           conversationId, embeddingProvider, reqs, notices, epoch, convEpoch,
           providerChanges, lastHistory, lastProvider>>
varsH == <<conversationsH, isLoadingH, pcH, conversationsData, historyData, noticesH>>
shared == <<page, lastEvent, sends, chatReqs, srvConvs, nextRid>>
varsT == <<toastVariant, toasts, nextId, timers, raised, pcT, closureNextId>>
varsP == <<route, reqToken, reqBody, pcP, fwdToken, backendCalls, beStatus, beBody,
           respStatus, respError>>
vars == <<shared, varsS, varsF, varsH, varsT, varsP>>

\* the id the backend gives to the next conversation it starts
NewConvId == "c" \o ToString(Len(srvConvs) + 1)

\* localStorage.getItem("token"): the dashboard layout redirects to the login
\* page without a token, so the chat page runs with a token (and its user)
token == TRUE

\* ------------------------------------------------ conversation chat page
UserMsgS(t, sid, ep) == [role |-> "user", content |-> t, sid |-> sid, epoch |-> ep]
BotMsgS(c, sid, ep) == [role |-> "assistant", content |-> c, sid |-> sid, epoch |-> ep]

ReqS(kind, rid, text, conv, closureConv, sid, ep) ==
  [kind |-> kind, rid |-> rid, text |-> text, conv |-> conv,
   closureConv |-> closureConv, sid |-> sid, epoch |-> ep]

\* fetchConversations up to its await, called from a render in which
\* currentConversationId was closureConv
ListReq(rid, closureConv) == ReqS("list", rid, "", Null, closureConv, 0, 0)

InitS ==
  /\ message = ""
  /\ messagesS = <<>>
  /\ conversations = <<>>
  /\ currentConversationId = Null
  /\ epochS = 0
  /\ newConvs = 0

\* (mutant) handleSubmit without its early return
SubmitGuardDropped == TRUE

\* the submit guard of handleSubmit
SubmitGuard == Trim(message) # "" /\ ~isLoadingS

\* input onChange; the input is disabled while isLoading
SetMessage(t) ==
  /\ page = "conv"
  /\ ~isLoadingS
  /\ t # message
  /\ message' = t
  /\ UNCHANGED <<varsF, varsH, varsT, varsP>>
  /\ UNCHANGED <<page, lastEvent, sends, chatReqs, srvConvs, nextRid, messagesS, isLoadingS,
                 conversations, currentConversationId, reqsS, epochS, newConvs>>

\* handleSubmit up to its first await
HandleSubmit ==
  /\ page = "conv"
  /\ SubmitGuard
  /\ sends < MaxSends
  /\ token
  /\ LET sid == sends + 1
     IN /\ messagesS' = Append(messagesS, UserMsgS(message, sid, epochS))
        /\ isLoadingS' = TRUE
        /\ message' = ""
        /\ sends' = sid
        /\ IF currentConversationId = Null
           THEN /\ reqsS' = reqsS \cup {ReqS("submitStart", nextRid, message, Null,
                                            currentConversationId, sid, epochS)}
                /\ chatReqs' = chatReqs
           ELSE /\ reqsS' = reqsS \cup {ReqS("chat", nextRid, message,
                                            currentConversationId,
                                            currentConversationId, sid, epochS)}
                /\ chatReqs' = chatReqs + 1
        /\ nextRid' = nextRid + 1
  /\ lastEvent' = "submit"
  /\ UNCHANGED <<varsF, varsH, varsT, varsP>>
  /\ UNCHANGED <<page, srvConvs, conversations, currentConversationId, epochS, newConvs>>

\* handleSubmit invoked with its guard failing: it returns at once
HandleSubmitRejected ==
  /\ page = "conv"
  /\ ~SubmitGuard
  \* "resubmitRejected": invoked again right after an accepted submit
  /\ lastEvent' = IF lastEvent \in {"submit", "resubmitRejected"}
                  THEN "resubmitRejected" ELSE "submitRejected"
  /\ UNCHANGED <<varsF, varsH, varsT, varsP>>
  /\ UNCHANGED <<page, sends, chatReqs, srvConvs, nextRid, varsS>>

\* (mutant) the chat request built from the state of the render that
\* submitted instead of the local variable
SubmitConversationIdStale(r, id) == r.closureConv

\* handleSubmit: the local conversationId after the start, the id the
\* chat request carries
SubmitConversationId(r, id) == id

\* handleSubmit: the start-conversation response arrives
SubmitStartOk(r) ==
  /\ page = "conv"
  /\ r \in reqsS /\ r.kind = "submitStart"
  /\ Len(srvConvs) < MaxConvs
  /\ LET id == NewConvId
     IN /\ srvConvs' = <<id>> \o srvConvs
        /\ currentConversationId' = id
        /\ reqsS' = (reqsS \ {r}) \cup {ReqS("chat", nextRid, r.text,
                                             SubmitConversationId(r, id),
                                             r.closureConv, r.sid, r.epoch)}
  /\ nextRid' = nextRid + 1
  /\ chatReqs' = chatReqs + 1
  /\ lastEvent' = "submitStartOk"
  /\ UNCHANGED <<varsF, varsH, varsT, varsP>>
  /\ UNCHANGED <<page, sends, message, messagesS, isLoadingS, conversations,
                 epochS, newConvs>>

\* handleSubmit: the start-conversation call fails (catch, finally)
SubmitStartFail(r) ==
  /\ page = "conv"
  /\ r \in reqsS /\ r.kind = "submitStart"
  /\ messagesS' = Append(messagesS, BotMsgS(Apology, r.sid, r.epoch))
  /\ isLoadingS' = FALSE
  /\ reqsS' = reqsS \ {r}
  /\ lastEvent' = "sendFailed"
  /\ UNCHANGED <<varsF, varsH, varsT, varsP>>
  /\ UNCHANGED <<page, sends, chatReqs, srvConvs, nextRid, message, conversations,
                 currentConversationId, epochS, newConvs>>

\* handleSubmit: the chat response arrives
ChatOkS(r) ==
  /\ page = "conv"
  /\ r \in reqsS /\ r.kind = "chat"
  /\ messagesS' = Append(messagesS, BotMsgS(Answer, r.sid, r.epoch))
  /\ IF r.closureConv = Null
     THEN /\ reqsS' = (reqsS \ {r}) \cup {ListReq(nextRid, r.closureConv)}
          /\ nextRid' = nextRid + 1
     ELSE /\ reqsS' = reqsS \ {r}
          /\ nextRid' = nextRid
  /\ isLoadingS' = FALSE
  /\ lastEvent' = "sendOk"
  /\ UNCHANGED <<varsF, varsH, varsT, varsP>>
  /\ UNCHANGED <<page, sends, chatReqs, srvConvs, message, conversations,
                 currentConversationId, epochS, newConvs>>

\* handleSubmit: the chat call fails (catch, finally)
ChatFailS(r) ==
  /\ page = "conv"
  /\ r \in reqsS /\ r.kind = "chat"
  /\ messagesS' = Append(messagesS, BotMsgS(Apology, r.sid, r.epoch))
  /\ isLoadingS' = FALSE
  /\ reqsS' = reqsS \ {r}
  /\ lastEvent' = "sendFailed"
  /\ UNCHANGED <<varsF, varsH, varsT, varsP>>
  /\ UNCHANGED <<page, sends, chatReqs, srvConvs, nextRid, message, conversations,
                 currentConversationId, epochS, newConvs>>

\* fetchConversations: the list arrives
ListOk(r) ==
  /\ page = "conv"
  /\ r \in reqsS /\ r.kind = "list"
  /\ conversations' = srvConvs
  /\ currentConversationId' =
       IF Len(srvConvs) > 0 /\ r.closureConv = Null
       THEN srvConvs[1] ELSE currentConversationId
  /\ isLoadingS' = FALSE
  /\ reqsS' = reqsS \ {r}
  /\ lastEvent' = "listOk"
  /\ UNCHANGED <<varsF, varsH, varsT, varsP>>
  /\ UNCHANGED <<page, sends, chatReqs, srvConvs, nextRid, message, messagesS,
                 epochS, newConvs>>

\* fetchConversations: the call fails (catch, finally)
ListFail(r) ==
  /\ page = "conv"
  /\ r \in reqsS /\ r.kind = "list"
  /\ isLoadingS' = FALSE
  /\ reqsS' = reqsS \ {r}
  /\ lastEvent' = "listFailed"
  /\ UNCHANGED <<varsF, varsH, varsT, varsP>>
  /\ UNCHANGED <<page, sends, chatReqs, srvConvs, nextRid, message, messagesS,
                 conversations, currentConversationId, epochS, newConvs>>

\* startNewConversation up to its await; the button is disabled while isLoading
StartNewConversation ==
  /\ page = "conv"
  /\ ~isLoadingS
  /\ token
  /\ newConvs < MaxNewConv
  /\ newConvs' = newConvs + 1
  /\ isLoadingS' = TRUE
  /\ reqsS' = reqsS \cup {ReqS("newConv", nextRid, "", Null, currentConversationId, 0, 0)}
  /\ nextRid' = nextRid + 1
  /\ lastEvent' = "newConversation"
  /\ UNCHANGED <<varsF, varsH, varsT, varsP>>
  /\ UNCHANGED <<page, sends, chatReqs, srvConvs, message, messagesS, conversations,
                 currentConversationId, epochS>>

\* startNewConversation: the response arrives
NewConvOk(r) ==
  /\ page = "conv"
  /\ r \in reqsS /\ r.kind = "newConv"
  /\ Len(srvConvs) < MaxConvs
  /\ srvConvs' = <<NewConvId>> \o srvConvs
  /\ currentConversationId' = NewConvId
  /\ messagesS' = <<>>
  /\ epochS' = epochS + 1
  /\ reqsS' = (reqsS \ {r}) \cup {ListReq(nextRid, r.closureConv)}
  /\ nextRid' = nextRid + 1
  /\ isLoadingS' = FALSE
  /\ lastEvent' = "newConversationOk"
  /\ UNCHANGED <<varsF, varsH, varsT, varsP>>
  /\ UNCHANGED <<page, sends, chatReqs, message, conversations, newConvs>>

\* startNewConversation: the call fails (catch, finally)
NewConvFail(r) ==
  /\ page = "conv"
  /\ r \in reqsS /\ r.kind = "newConv"
  /\ isLoadingS' = FALSE
  /\ reqsS' = reqsS \ {r}
  /\ lastEvent' = "newConversationFailed"
  /\ UNCHANGED <<varsF, varsH, varsT, varsP>>
  /\ UNCHANGED <<page, sends, chatReqs, srvConvs, nextRid, message, messagesS,
                 conversations, currentConversationId, epochS, newConvs>>

\* (mutant) handleConversationChange reloading the conversations eagerly
HandleConversationChangeReloading(value) ==
  /\ page = "conv"
  /\ ~isLoadingS
  /\ epochS < MaxSwitch
  /\ value # currentConversationId
  /\ currentConversationId' = value
  /\ messagesS' = <<>>
  /\ epochS' = epochS + 1
  /\ isLoadingS' = TRUE
  /\ reqsS' = reqsS \cup {ListReq(nextRid, value)}
  /\ nextRid' = nextRid + 1
  /\ lastEvent' = "conversationChange"
  /\ UNCHANGED <<varsF, varsH, varsT, varsP>>
  /\ UNCHANGED <<page, sends, chatReqs, srvConvs, message, conversations, newConvs>>

\* handleConversationChange; the select is disabled while isLoading
HandleConversationChange(value) ==
  /\ page = "conv"
  /\ ~isLoadingS
  /\ epochS < MaxSwitch
  /\ value # currentConversationId
  /\ currentConversationId' = value
  /\ messagesS' = <<>>
  /\ epochS' = epochS + 1
  /\ lastEvent' = "conversationChange"
  /\ UNCHANGED <<varsF, varsH, varsT, varsP>>
  /\ UNCHANGED <<page, sends, chatReqs, srvConvs, nextRid, message, isLoadingS,
                 conversations, reqsS, newConvs>>

NextS ==
  \/ \E t \in Texts : SetMessage(t)
  \/ HandleSubmit
  \/ HandleSubmitRejected
  \/ \E r \in reqsS : SubmitStartOk(r)
  \/ \E r \in reqsS : SubmitStartFail(r)
  \/ \E r \in reqsS : ChatOkS(r)
  \/ \E r \in reqsS : ChatFailS(r)
  \/ \E r \in reqsS : ListOk(r)
  \/ \E r \in reqsS : ListFail(r)
  \/ StartNewConversation
  \/ \E r \in reqsS : NewConvOk(r)
  \/ \E r \in reqsS : NewConvFail(r)
  \/ \E v \in Range(conversations) : HandleConversationChange(v)

\* --------------------------------------------------------- file chat page
\* the files the backend lists for the user, and their names
FileList == <<"A", "B">>
FileName(f) == f \o ".csv"
Providers == {"local", "openai"}
\* the conversation id of a deep link (history page, "continue")
DeepId == "x1"
Welcome(name) == "Hello! I'm ready to help you analyze the data in " \o name
WelcomeBack(name) == "Welcome back to our conversation about " \o name
Now == "now"

\* the i-th record the backend stored for a conversation, and the histories it
\* may return: the first n records, oldest first
Record(i) == [question |-> "q" \o ToString(i), response |-> "r" \o ToString(i),
              timestamp |-> "t" \o ToString(i)]
Histories == {[i \in 1..n |-> Record(i)] : n \in 0..MaxHist}

Msg(role, content, ts, sid, ep) ==
  [role |-> role, content |-> content, timestamp |-> ts, sid |-> sid, epoch |-> ep]

Req(kind, rid, text, file, conv, provider, name, sid, ep) ==
  [kind |-> kind, rid |-> rid, text |-> text, file |-> file, conv |-> conv,
   provider |-> provider, name |-> name, sid |-> sid, epoch |-> ep]

\* initializeConversation up to its await, in a render whose selectedFile is
\* file and whose selectedFileName is name; fallbackOf is the explicit id whose
\* load failed, or Null
StartReq(rid, file, name, fallbackOf, ep) ==
  Req("start", rid, "", file, fallbackOf, Null, name, 0, ep)

\* (mutant) the assistant message stamped with the time of the load instead of
\* the timestamp of its record
RECURSIVE LoadedMessagesStampedNow(_, _)
LoadedMessagesStampedNow(history, ep) ==
  IF history = <<>> THEN <<>>
  ELSE LET item == history[1]
       IN <<Msg("user", item.question, item.timestamp, 0, ep),
            Msg("assistant", item.response, Now, 0, ep)>>
          \o LoadedMessagesStampedNow(Tail(history), ep)

\* loadExistingConversation: history.forEach pushes the user message, then the
\* assistant message, of every record
RECURSIVE LoadedMessages(_, _)
LoadedMessages(history, ep) ==
  IF history = <<>> THEN <<>>
  ELSE LET item == history[1]
       IN <<Msg("user", item.question, item.timestamp, 0, ep),
            Msg("assistant", item.response, item.timestamp, 0, ep)>>
          \o LoadedMessages(Tail(history), ep)

\* the effect on [selectedFile, files, conversationId]: is the selected file
\* among the files
FileFound(sel, fls) == sel # Null /\ sel \in Range(fls)

\* (mutant) handleSendMessage testing its input without trimming it
SendGuardNoTrim == input # "" /\ selectedFile # Null /\ conversationId # Null

\* the guard of handleSendMessage
SendGuard == Trim(input) # "" /\ selectedFile # Null /\ conversationId # Null

\* the textarea is disabled while isLoading or without a selected file
TextareaEnabled == ~isLoading /\ selectedFile # Null

\* getUserFiles resolves: setFiles, select the first file if none was selected
\* when fetchFiles was called; then the effect on [selectedFile, files,
\* conversationId] runs
FetchFilesOk(r, list) ==
  /\ page = "file"
  /\ r \in reqs /\ r.kind = "files"
  /\ files' = list
  /\ selectedFile' = IF Len(list) > 0 /\ r.file = Null THEN list[1] ELSE selectedFile
  /\ IF FileFound(selectedFile', list)
     THEN /\ selectedFileName' = FileName(selectedFile')
          /\ IF conversationId = Null
             THEN /\ reqs' = (reqs \ {r}) \cup
                       {StartReq(nextRid, selectedFile', selectedFileName, Null, epoch)}
                  /\ nextRid' = nextRid + 1
             ELSE /\ reqs' = reqs \ {r}
                  /\ nextRid' = nextRid
     ELSE /\ selectedFileName' = selectedFileName
          /\ reqs' = reqs \ {r}
          /\ nextRid' = nextRid
  /\ lastProvider' = Null
  /\ lastEvent' = "filesOk"
  /\ UNCHANGED <<varsS, varsH, varsT, varsP>>
  /\ UNCHANGED <<page, sends, chatReqs, srvConvs, fileId, messages, input, isLoading,
                 conversationId, embeddingProvider, notices, epoch, convEpoch,
                 providerChanges, lastHistory>>

\* getUserFiles fails
FetchFilesFail(r) ==
  /\ page = "file"
  /\ r \in reqs /\ r.kind = "files"
  /\ notices' = Notify(notices, "Failed to load files")
  /\ reqs' = reqs \ {r}
  /\ lastProvider' = Null
  /\ lastEvent' = "filesFailed"
  /\ UNCHANGED <<varsS, varsH, varsT, varsP>>
  /\ UNCHANGED <<page, sends, chatReqs, srvConvs, nextRid, fileId, files, selectedFile,
                 selectedFileName, messages, input, isLoading, conversationId,
                 embeddingProvider, epoch, convEpoch, providerChanges, lastHistory>>

\* handleFileChange (the select offers the files, onChange fires on another
\* file), then the effect on [selectedFile, files, conversationId]
HandleFileChange(newFileId) ==
  /\ page = "file"
  /\ newFileId \in Range(files)
  /\ newFileId # selectedFile
  /\ epoch < MaxFileChanges
  /\ selectedFile' = newFileId
  /\ conversationId' = Null
  /\ messages' = <<>>
  /\ fileId' = newFileId
  /\ epoch' = epoch + 1
  /\ convEpoch' = epoch + 1
  /\ selectedFileName' = FileName(newFileId)
  /\ reqs' = reqs \cup {StartReq(nextRid, newFileId, selectedFileName, Null, epoch + 1)}
  /\ nextRid' = nextRid + 1
  /\ lastProvider' = Null
  /\ lastEvent' = "fileChange"
  /\ UNCHANGED <<varsS, varsH, varsT, varsP>>
  /\ UNCHANGED <<page, sends, chatReqs, srvConvs, files, input, isLoading,
                 embeddingProvider, notices, providerChanges, lastHistory>>

\* initializeConversation: startConversation resolves; the effect on
\* [selectedFile, files, conversationId] then finds a conversation id
StartOk(r) ==
  /\ page = "file"
  /\ r \in reqs /\ r.kind = "start"
  /\ Len(srvConvs) < MaxConvs
  /\ srvConvs' = <<NewConvId>> \o srvConvs
  /\ conversationId' = NewConvId
  /\ convEpoch' = r.epoch
  /\ messages' = <<Msg("assistant", Welcome(r.name), Now, 0, r.epoch)>>
  /\ selectedFileName' = IF FileFound(selectedFile, files)
                         THEN FileName(selectedFile) ELSE selectedFileName
  /\ reqs' = reqs \ {r}
  /\ lastProvider' = Null
  /\ lastEvent' = IF r.conv = Null THEN "startOk" ELSE "fallbackStartOk"
  /\ UNCHANGED <<varsS, varsH, varsT, varsP>>
  /\ UNCHANGED <<page, sends, chatReqs, nextRid, fileId, files, selectedFile, input,
                 isLoading, embeddingProvider, notices, epoch, providerChanges, lastHistory>>

\* initializeConversation: startConversation fails
StartFail(r) ==
  /\ page = "file"
  /\ r \in reqs /\ r.kind = "start"
  /\ notices' = Notify(notices, "Failed to start conversation")
  /\ reqs' = reqs \ {r}
  /\ lastProvider' = Null
  /\ lastEvent' = IF r.conv = Null THEN "startFailed" ELSE "fallbackStartFailed"
  /\ UNCHANGED <<varsS, varsH, varsT, varsP>>
  /\ UNCHANGED <<page, sends, chatReqs, srvConvs, nextRid, fileId, files, selectedFile,
                 selectedFileName, messages, input, isLoading, conversationId,
                 embeddingProvider, epoch, convEpoch, providerChanges, lastHistory>>

\* loadExistingConversation: getConversationMessages resolves with history
LoadOk(r, history) ==
  /\ page = "file"
  /\ r \in reqs /\ r.kind = "load"
  /\ messages' = IF Len(LoadedMessages(history, r.epoch)) = 0
                 THEN <<Msg("assistant", WelcomeBack(r.name), Now, 0, r.epoch)>>
                 ELSE LoadedMessages(history, r.epoch)
  /\ isLoading' = FALSE
  /\ reqs' = reqs \ {r}
  /\ lastProvider' = Null
  /\ lastEvent' = "loadOk"
  /\ lastHistory' = history
  /\ UNCHANGED <<varsS, varsH, varsT, varsP>>
  /\ UNCHANGED <<page, sends, chatReqs, srvConvs, nextRid, fileId, files, selectedFile,
                 selectedFileName, input, conversationId, embeddingProvider, notices,
                 epoch, convEpoch, providerChanges>>

\* (mutant) the catch of loadExistingConversation without the fallback
NoFallbackReqs(r) == {}

\* the catch of loadExistingConversation calls initializeConversation, with
\* the selectedFile and selectedFileName of the render that called the load
FallbackReqs(r) == {StartReq(nextRid, r.file, r.name, r.conv, r.epoch)}

\* loadExistingConversation: getConversationMessages fails; the catch falls
\* back to initializeConversation, the finally clears isLoading
LoadFail(r) ==
  /\ page = "file"
  /\ r \in reqs /\ r.kind = "load"
  /\ notices' = Notify(notices, "Failed to load conversation history")
  /\ reqs' = (reqs \ {r}) \cup FallbackReqs(r)
  /\ nextRid' = nextRid + 1
  /\ isLoading' = FALSE
  /\ lastProvider' = Null
  /\ lastEvent' = "loadFailed"
  /\ UNCHANGED <<varsS, varsH, varsT, varsP>>
  /\ UNCHANGED <<page, sends, chatReqs, srvConvs, fileId, files, selectedFile,
                 selectedFileName, messages, input, conversationId, embeddingProvider,
                 epoch, convEpoch, providerChanges, lastHistory>>

\* textarea onChange
SetInput(t) ==
  /\ page = "file"
  /\ TextareaEnabled
  /\ t # input
  /\ input' = t
  /\ UNCHANGED <<varsS, varsH, varsT, varsP>>
  /\ UNCHANGED <<page, lastEvent, sends, chatReqs, srvConvs, nextRid, fileId, files, selectedFile,
                 selectedFileName, messages, isLoading, conversationId,
                 embeddingProvider, reqs, notices, epoch, convEpoch, providerChanges,
                 lastHistory, lastProvider>>

\* handleSendMessage up to its await (Enter in the textarea, or the button)
HandleSendMessage ==
  /\ page = "file"
  /\ TextareaEnabled
  /\ SendGuard
  /\ sends < MaxSends
  /\ messages' = Append(messages, Msg("user", input, Now, sends + 1, epoch))
  /\ input' = ""
  /\ isLoading' = TRUE
  /\ reqs' = reqs \cup {Req("chat", nextRid, input, selectedFile, conversationId,
                            embeddingProvider, selectedFileName, sends + 1, epoch)}
  /\ nextRid' = nextRid + 1
  /\ sends' = sends + 1
  /\ chatReqs' = chatReqs + 1
  /\ lastProvider' = Null
  /\ lastEvent' = "send"
  /\ UNCHANGED <<varsS, varsH, varsT, varsP>>
  /\ UNCHANGED <<page, srvConvs, fileId, files, selectedFile, selectedFileName,
                 conversationId, embeddingProvider, notices, epoch, convEpoch,
                 providerChanges, lastHistory>>

\* handleSendMessage invoked with its guard failing: it returns at once
HandleSendMessageRejected ==
  /\ page = "file"
  /\ TextareaEnabled
  /\ ~SendGuard
  /\ lastEvent' = "sendRejected"
  /\ UNCHANGED <<varsS, varsH, varsT, varsP>>
  /\ UNCHANGED <<page, sends, chatReqs, srvConvs, nextRid, varsF>>

\* (mutant) setEmbeddingProvider called without the test of the response
ProviderAfterResponseUnguarded(current, provider) == provider

\* handleSendMessage: if (response.embedding_provider) setEmbeddingProvider(...)
ProviderAfterResponse(current, provider) ==
  IF provider # Null THEN provider ELSE current

\* handleSendMessage: sendChatMessage resolves; the response may carry an
\* embedding provider
ChatOk(r, provider) ==
  /\ page = "file"
  /\ r \in reqs /\ r.kind = "chat"
  /\ messages' = Append(messages, Msg("assistant", Answer, Now, r.sid, r.epoch))
  /\ embeddingProvider' = ProviderAfterResponse(embeddingProvider, provider)
  /\ lastProvider' = provider
  /\ isLoading' = FALSE
  /\ reqs' = reqs \ {r}
  /\ lastEvent' = "sendOk"
  /\ UNCHANGED <<varsS, varsH, varsT, varsP>>
  /\ UNCHANGED <<page, sends, chatReqs, srvConvs, nextRid, fileId, files, selectedFile,
                 selectedFileName, input, conversationId, notices, epoch, convEpoch,
                 providerChanges, lastHistory>>

\* handleSendMessage: sendChatMessage fails (catch, finally)
ChatFail(r) ==
  /\ page = "file"
  /\ r \in reqs /\ r.kind = "chat"
  /\ notices' = Notify(notices, "Failed to send message")
  /\ isLoading' = FALSE
  /\ reqs' = reqs \ {r}
  /\ lastProvider' = Null
  /\ lastEvent' = "sendFailed"
  /\ UNCHANGED <<varsS, varsH, varsT, varsP>>
  /\ UNCHANGED <<page, sends, chatReqs, srvConvs, nextRid, fileId, files, selectedFile,
                 selectedFileName, messages, input, conversationId, embeddingProvider,
                 epoch, convEpoch, providerChanges, lastHistory>>

\* handleEmbeddingProviderChange
HandleEmbeddingProviderChange(provider) ==
  /\ page = "file"
  /\ providerChanges < MaxProviderChanges
  /\ providerChanges' = providerChanges + 1
  /\ embeddingProvider' = provider
  /\ notices' = Notify(notices, "Embedding provider changed to " \o provider)
  /\ UNCHANGED <<varsS, varsH, varsT, varsP>>
  /\ UNCHANGED <<page, lastEvent, sends, chatReqs, srvConvs, nextRid, fileId, files, selectedFile,
                 selectedFileName, messages, input, isLoading, conversationId, reqs,
                 epoch, convEpoch, lastHistory, lastProvider>>

NextF ==
  \/ \E r \in reqs, list \in {<<>>, FileList} : FetchFilesOk(r, list)
  \/ \E r \in reqs : FetchFilesFail(r)
  \/ \E f \in Range(files) : HandleFileChange(f)
  \/ \E r \in reqs : StartOk(r)
  \/ \E r \in reqs : StartFail(r)
  \/ \E r \in reqs, h \in Histories : LoadOk(r, h)
  \/ \E r \in reqs : LoadFail(r)
  \/ \E t \in Texts : SetInput(t)
  \/ HandleSendMessage
  \/ HandleSendMessageRejected
  \/ \E r \in reqs, p \in Providers \cup {Null} : ChatOk(r, p)
  \/ \E r \in reqs : ChatFail(r)
  \/ \E p \in Providers : HandleEmbeddingProviderChange(p)

\* the URLs the file chat page is opened with: the route parameter and the
\* conversationId query parameter
Urls == {[fileId |-> f, convId |-> c] : f \in {Null, "A"}, c \in {Null, DeepId}}

\* the state after the first render and its effects, for page opened at url:
\* the effect on [location] sets the conversation id of the query and calls
\* loadExistingConversation, which returns at once without a selected file;
\* the effect on [] calls fetchFiles
InitF(url) ==
  /\ fileId = url.fileId
  /\ files = <<>>
  /\ selectedFile = url.fileId
  /\ selectedFileName = ""
  /\ messages = <<>>
  /\ input = ""
  /\ embeddingProvider = "local"
  /\ notices = EmptyBag
  /\ epoch = 0
  /\ convEpoch = 0
  /\ providerChanges = 0
  /\ lastHistory = <<>>
  /\ lastProvider = Null
  /\ conversationId = url.convId
  /\ isLoading = (url.convId # Null /\ url.fileId # Null)
  /\ reqs = {Req("files", 1, "", url.fileId, Null, Null, "", 0, 0)} \cup
            (IF url.convId # Null /\ url.fileId # Null
             THEN {Req("load", 2, "", url.fileId, url.convId, Null, "", 0, 0)}
             ELSE {})

\* ------------------------------------------------------------ history page
\* the conversation ids and the started_at strings of the headers, and the
\* conversation ids of the records (OrphanId has no header)
HeaderIds == {"c1", "c2"}
StartTimes == {"2024-01-01", "2024-01-02"}
OrphanId == "c9"

\* new Date(started_at).getTime(), in days since 2024-01-00
GetTime(startedAt) == IF startedAt = "2024-01-01" THEN 1 ELSE 2

Headers == [conversation_id : HeaderIds, started_at : StartTimes]
HeaderLists == UNION {[1..n -> Headers] : n \in 0..MaxHeaders}

\* the k-th record of the backend's list, of conversation id
HistoryItem(k, id) ==
  [question |-> "q" \o ToString(k), response |-> "r" \o ToString(k),
   timestamp |-> "t" \o ToString(k), conversation_id |-> id]
RecordLists ==
  UNION {{[k \in 1..n |-> HistoryItem(k, ids[k])] : ids \in [1..n -> HeaderIds \cup {OrphanId}]}
         : n \in 0..MaxRecords}

\* (mutant) one bucket per id, each holding every record
ConversationsMapShared(data, map) ==
  [id \in {data[i].conversation_id : i \in DOMAIN data} |-> data]

\* (mutant) each record put in front of its bucket
RECURSIVE ConversationsMapPrepend(_, _)
ConversationsMapPrepend(data, map) ==
  IF data = <<>> THEN map
  ELSE LET item == data[1]
           id == item.conversation_id
           created == IF id \in DOMAIN map THEN map ELSE map @@ (id :> <<>>)
       IN ConversationsMapPrepend(Tail(data), [created EXCEPT ![id] = <<item>> \o @])

\* historyData.forEach: conversationsMap after the items of data, begun from map
RECURSIVE ConversationsMap(_, _)
ConversationsMap(data, map) ==
  IF data = <<>> THEN map
  ELSE LET item == data[1]
           id == item.conversation_id
           created == IF id \in DOMAIN map THEN map ELSE map @@ (id :> <<>>)
       IN ConversationsMap(Tail(data), [created EXCEPT ![id] = Append(@, item)])

\* (mutant) the headers without records left out of the list
ConversationsWithMessagesOmitEmpty(data, map) ==
  [i \in DOMAIN SelectSeq(data, LAMBDA h : h.conversation_id \in DOMAIN map) |->
     LET h == SelectSeq(data, LAMBDA g : g.conversation_id \in DOMAIN map)[i]
     IN [conversation_id |-> h.conversation_id,
         started_at |-> h.started_at,
         messages |-> map[h.conversation_id],
         expanded |-> FALSE]]

\* conversationsData.map: one conversation object per header
ConversationsWithMessages(data, map) ==
  [i \in DOMAIN data |->
     [conversation_id |-> data[i].conversation_id,
      started_at |-> data[i].started_at,
      messages |-> IF data[i].conversation_id \in DOMAIN map
                   THEN map[data[i].conversation_id] ELSE <<>>,
      expanded |-> FALSE]]

\* (mutant) the comparator with its operands exchanged: oldest first
CompareAscending(a, b) == GetTime(a.started_at) - GetTime(b.started_at)

\* the comparator passed to sort: most recent first
Compare(a, b) == GetTime(b.started_at) - GetTime(a.started_at)

\* Array.prototype.sort is stable: x goes before the first element that the
\* comparator orders after it
RECURSIVE Insert(_, _)
Insert(x, sorted) ==
  IF sorted = <<>> THEN <<x>>
  ELSE IF Compare(x, sorted[1]) < 0 THEN <<x>> \o sorted
       ELSE <<sorted[1]>> \o Insert(x, Tail(sorted))

RECURSIVE Sort(_, _)
Sort(list, sorted) ==
  IF list = <<>> THEN sorted ELSE Sort(Tail(list), Insert(list[1], sorted))

IdleH ==
  /\ conversationsH = <<>>
  /\ isLoadingH = TRUE
  /\ conversationsData = <<>>
  /\ historyData = <<>>
  /\ noticesH = EmptyBag

\* getUserConversations resolves with the headers data
ConversationsOk(data) ==
  /\ page = "history"
  /\ pcH = "getUserConversations"
  /\ conversationsData' = data
  /\ pcH' = "getUserHistory"
  /\ lastEvent' = "conversationsOk"
  /\ UNCHANGED <<page, sends, chatReqs, srvConvs, nextRid, varsS, varsF, varsT, varsP>>
  /\ UNCHANGED <<conversationsH, isLoadingH, historyData, noticesH>>

\* getUserHistory resolves with the records data: group, attach, sort, set
HistoryOk(data) ==
  /\ page = "history"
  /\ pcH = "getUserHistory"
  /\ historyData' = data
  /\ conversationsH' =
       Sort(ConversationsWithMessages(conversationsData, ConversationsMap(data, <<>>)), <<>>)
  /\ isLoadingH' = FALSE
  /\ pcH' = "done"
  /\ lastEvent' = "historyOk"
  /\ UNCHANGED <<page, sends, chatReqs, srvConvs, nextRid, varsS, varsF, varsT, varsP>>
  /\ UNCHANGED <<conversationsData, noticesH>>

\* (mutant) the failure shows the headers fetched so far and keeps loading
HistoryFailPartial ==
  /\ page = "history"
  /\ pcH \in {"getUserConversations", "getUserHistory"}
  /\ noticesH' = Notify(noticesH, "Failed to load history")
  /\ conversationsH' = ConversationsWithMessages(conversationsData, <<>>)
  /\ pcH' = "done"
  /\ lastEvent' = "historyFailed"
  /\ UNCHANGED <<page, sends, chatReqs, srvConvs, nextRid, varsS, varsF, varsT, varsP>>
  /\ UNCHANGED <<isLoadingH, conversationsData, historyData>>

\* getUserConversations or getUserHistory fails (catch, finally)
HistoryFail ==
  /\ page = "history"
  /\ pcH \in {"getUserConversations", "getUserHistory"}
  /\ noticesH' = Notify(noticesH, "Failed to load history")
  /\ isLoadingH' = FALSE
  /\ pcH' = "done"
  /\ lastEvent' = "historyFailed"
  /\ UNCHANGED <<page, sends, chatReqs, srvConvs, nextRid, varsS, varsF, varsT, varsP>>
  /\ UNCHANGED <<conversationsH, conversationsData, historyData>>

NextH ==
  \/ \E data \in HeaderLists : ConversationsOk(data)
  \/ \E data \in RecordLists : HistoryOk(data)
  \/ HistoryFail

\* ------------------------------------------------------------------- spec
\* the state a page not mounted keeps
IdleS ==
  /\ InitS
  /\ isLoadingS = FALSE
  /\ reqsS = {}

IdleF ==
  /\ fileId = Null
  /\ files = <<>>
  /\ selectedFile = Null
  /\ selectedFileName = ""
  /\ messages = <<>>
  /\ input = ""
  /\ embeddingProvider = "local"
  /\ notices = EmptyBag
  /\ epoch = 0
  /\ convEpoch = 0
  /\ providerChanges = 0
  /\ lastHistory = <<>>
  /\ lastProvider = Null
  /\ conversationId = Null
  /\ isLoading = FALSE
  /\ reqs = {}

\* no toast provider mounted
IdleT ==
  /\ toastVariant = Null
  /\ toasts = <<>>
  /\ nextId = 1
  /\ timers = {}
  /\ raised = 0
  /\ pcT = "idle"
  /\ closureNextId = 1

\* no request at the edge proxy
IdleP ==
  /\ route = Null
  /\ reqToken = Null
  /\ reqBody = Null
  /\ pcP = "idle"
  /\ fwdToken = Null
  /\ backendCalls = 0
  /\ beStatus = 0
  /\ beBody = Null
  /\ respStatus = 0
  /\ respError = Null

Init ==
  /\ lastEvent = "mount"
  /\ IdleH /\ pcH = "idle"
  /\ IdleT /\ IdleP
  /\ sends = 0
  /\ chatReqs = 0
  /\ \/ /\ page = "conv"
        /\ srvConvs \in {<<>>, <<"c1">>}
        /\ InitS
        \* the effect on [] has called fetchConversations
        /\ isLoadingS = TRUE
        /\ reqsS = {ListReq(1, Null)}
        /\ nextRid = 2
        /\ IdleF
     \/ /\ page = "file"
        /\ srvConvs = <<>>
        /\ \E url \in Urls : InitF(url)
        /\ nextRid = 3
        /\ IdleS

Next == NextS \/ NextF

Spec == Init /\ [][Next]_vars

\* every step but the answer to a chat request: the requests are plain fetch
\* calls without timer or abort signal, so nothing but the answer ends one
StepsButChatAnswer ==
  \/ \E t \in Texts : SetMessage(t)
  \/ HandleSubmit
  \/ HandleSubmitRejected
  \/ \E r \in reqsS : SubmitStartOk(r)
  \/ \E r \in reqsS : SubmitStartFail(r)
  \/ \E r \in reqsS : ListOk(r)
  \/ \E r \in reqsS : ListFail(r)
  \/ StartNewConversation
  \/ \E r \in reqsS : NewConvOk(r)
  \/ \E r \in reqsS : NewConvFail(r)
  \/ \E v \in Range(conversations) : HandleConversationChange(v)
  \/ \E r \in reqs, list \in {<<>>, FileList} : FetchFilesOk(r, list)
  \/ \E r \in reqs : FetchFilesFail(r)
  \/ \E f \in Range(files) : HandleFileChange(f)
  \/ \E r \in reqs : StartOk(r)
  \/ \E r \in reqs : StartFail(r)
  \/ \E r \in reqs, h \in Histories : LoadOk(r, h)
  \/ \E r \in reqs : LoadFail(r)
  \/ \E t \in Texts : SetInput(t)
  \/ HandleSendMessage
  \/ HandleSendMessageRejected
  \/ \E p \in Providers : HandleEmbeddingProviderChange(p)

\* the chat pages when every step of the page and every other answer is taken
\* in the end, and the backend is free never to answer a chat request
SpecUnanswered == Init /\ [][Next]_vars /\ WF_vars(StepsButChatAnswer)

\* the history page mounted: the effect on [] has called fetchConversations,
\* which is at its first await
InitH ==
  /\ page = "history"
  /\ lastEvent = "mount"
  /\ sends = 0
  /\ chatReqs = 0
  /\ srvConvs = <<>>
  /\ nextRid = 1
  /\ IdleS
  /\ IdleF
  /\ IdleH
  /\ pcH = "getUserConversations"
  /\ IdleT
  /\ IdleP

SpecHistory == InitH /\ [][NextH]_vars

\* ---------------------------------------------------------- toast provider

ToastVariants == {"nextId", "randomUUID"}

\* showToast: the id of the toast, in a render whose nextId is closureId; a
\* randomUUID is an id no earlier call returned
ToastId(closureId) ==
  IF toastVariant = "nextId" THEN closureId ELSE "u" \o ToString(raised + 1)

\* hideToast: prevToasts.filter((toast) => toast.id !== id)
WithoutId(list, id) == SelectSeq(list, LAMBDA toast : toast.id # id)

\* showToast(m) of the render whose nextId is closureId: setNextId(id + 1),
\* the toast appended, the timer set
ShowToast(closureId, m) ==
  /\ toasts' = Append(toasts, [id |-> ToastId(closureId), message |-> m])
  /\ nextId' = IF toastVariant = "nextId" THEN closureId + 1 ELSE nextId
  /\ timers' = timers \cup {[id |-> ToastId(closureId), n |-> raised + 1]}
  /\ raised' = raised + 1

\* loadExistingConversation is called: it holds the showToast of this render
LoadExistingConversation ==
  /\ page = "toast"
  /\ pcT = "idle"
  /\ raised < MaxToasts
  /\ closureNextId' = nextId
  /\ pcT' = "getConversationMessages"
  /\ UNCHANGED <<shared, varsS, varsF, varsH, varsP>>
  /\ UNCHANGED <<toastVariant, toasts, nextId, timers, raised>>

\* getConversationMessages succeeds: no toast
ResumeOk ==
  /\ page = "toast"
  /\ pcT = "getConversationMessages"
  /\ pcT' = "idle"
  /\ UNCHANGED <<shared, varsS, varsF, varsH, varsP>>
  /\ UNCHANGED <<toastVariant, toasts, nextId, timers, raised, closureNextId>>

\* getConversationMessages fails: the catch raises a toast and calls the
\* initializeConversation of the same render
ResumeFail ==
  /\ page = "toast"
  /\ pcT = "getConversationMessages"
  /\ ShowToast(closureNextId, "Failed to load conversation history")
  /\ pcT' = "startConversation"
  /\ UNCHANGED <<shared, varsS, varsF, varsH, varsP>>
  /\ UNCHANGED <<toastVariant, closureNextId>>

\* the fallback startConversation succeeds: no toast
FallbackOk ==
  /\ page = "toast"
  /\ pcT = "startConversation"
  /\ pcT' = "idle"
  /\ UNCHANGED <<shared, varsS, varsF, varsH, varsP>>
  /\ UNCHANGED <<toastVariant, toasts, nextId, timers, raised, closureNextId>>

\* the fallback startConversation fails: its catch raises a toast
FallbackFail ==
  /\ page = "toast"
  /\ pcT = "startConversation"
  /\ raised < MaxToasts
  /\ ShowToast(closureNextId, "Failed to start conversation")
  /\ pcT' = "idle"
  /\ UNCHANGED <<shared, varsS, varsF, varsH, varsP>>
  /\ UNCHANGED <<toastVariant, closureNextId>>

\* the close button of the toast at position i is clicked
HideToast(i) ==
  /\ page = "toast"
  /\ i \in DOMAIN toasts
  /\ toasts' = WithoutId(toasts, toasts[i].id)
  /\ UNCHANGED <<shared, varsS, varsF, varsH, varsP>>
  /\ UNCHANGED <<toastVariant, nextId, timers, raised, pcT, closureNextId>>

\* the 5 second timer t fires: hideToast(id)
TimerFires(t) ==
  /\ page = "toast"
  /\ t \in timers
  /\ toasts' = WithoutId(toasts, t.id)
  /\ timers' = timers \ {t}
  /\ UNCHANGED <<shared, varsS, varsF, varsH, varsP>>
  /\ UNCHANGED <<toastVariant, nextId, raised, pcT, closureNextId>>

NextT ==
  \/ LoadExistingConversation
  \/ ResumeOk
  \/ ResumeFail
  \/ FallbackOk
  \/ FallbackFail
  \/ \E i \in DOMAIN toasts : HideToast(i)
  \/ \E t \in timers : TimerFires(t)

\* ToastProvider mounted, of either ToastContext.tsx, around a page idle
InitT ==
  /\ page = "toast"
  /\ lastEvent = "mount"
  /\ sends = 0
  /\ chatReqs = 0
  /\ srvConvs = <<>>
  /\ nextRid = 1
  /\ IdleS
  /\ IdleF
  /\ IdleH /\ pcH = "idle"
  /\ IdleP
  /\ toastVariant \in ToastVariants
  /\ toasts = <<>>
  /\ nextId = 1
  /\ timers = {}
  /\ raised = 0
  /\ pcT = "idle"
  /\ closureNextId = 1

SpecToast == InitT /\ [][NextT]_vars

\* ------------------------------------------------------------- edge proxy

Routes == {"chat", "start-conversation", "conversations", "history"}
Tokens == {Null, "", "Bearer t1", "Bearer t2"}   \* Null: no Authorization header
Bodies == {"json", "garbage"}                    \* does the body parse as JSON
BackendStatuses == {200, 401, 404, 503}
BackendErrors == {Null, "detail"}                \* the field error of the data

\* !token
TokenMissing(tok) == tok = Null \/ tok = ""

\* response.ok
Ok(status) == status \in 200..299

\* the message of a route for a backend answer without error field
DefaultError(r) ==
  CASE r = "chat" -> "Failed to process request"
    [] r = "start-conversation" -> "Failed to start conversation"
    [] r = "conversations" -> "Failed to fetch conversations"
    [] OTHER -> "Failed to fetch history"

\* return NextResponse.json({ error }, { status }), or NextResponse.json(data)
\* when error is Null
Respond(status, error) ==
  /\ respStatus' = status
  /\ respError' = error
  /\ pcP' = "done"

\* the handler is at its await fetch, with Authorization: token
FetchBackend ==
  /\ fwdToken' = reqToken
  /\ backendCalls' = backendCalls + 1
  /\ pcP' = "fetch"
  /\ UNCHANGED <<respStatus, respError>>

\* POST /api/chat up to its fetch: request.json() comes before the token test
\* and its failure goes to the catch
ChatRoute ==
  /\ page = "proxy"
  /\ route = "chat" /\ pcP = "received"
  /\ IF reqBody # "json"
     THEN Respond(500, "Internal server error") /\ UNCHANGED <<fwdToken, backendCalls>>
     ELSE IF TokenMissing(reqToken)
          THEN Respond(401, "Authorization token is missing")
               /\ UNCHANGED <<fwdToken, backendCalls>>
          ELSE FetchBackend
  /\ UNCHANGED <<shared, varsS, varsF, varsH, varsT>>
  /\ UNCHANGED <<route, reqToken, reqBody, beStatus, beBody>>

\* POST /api/start-conversation, GET /api/conversations/[userId] and the GET
\* of the history up to their fetch: the token test comes first
TokenRoute ==
  /\ page = "proxy"
  /\ route # "chat" /\ pcP = "received"
  /\ IF TokenMissing(reqToken)
     THEN Respond(401, "Authorization token is missing")
          /\ UNCHANGED <<fwdToken, backendCalls>>
     ELSE FetchBackend
  /\ UNCHANGED <<shared, varsS, varsF, varsH, varsT>>
  /\ UNCHANGED <<route, reqToken, reqBody, beStatus, beBody>>

\* the backend answers: response.json() (its failure goes to the catch), then
\* the test of response.ok
BackendAnswers(status, body, error) ==
  /\ page = "proxy"
  /\ pcP = "fetch"
  /\ beStatus' = status
  /\ beBody' = body
  /\ IF body # "json"
     THEN Respond(500, "Internal server error")
     ELSE IF ~Ok(status)
          THEN Respond(status, IF error # Null THEN error ELSE DefaultError(route))
          ELSE Respond(200, Null)
  /\ UNCHANGED <<shared, varsS, varsF, varsH, varsT>>
  /\ UNCHANGED <<route, reqToken, reqBody, fwdToken, backendCalls>>

\* the fetch to the backend rejects: the catch
BackendThrows ==
  /\ page = "proxy"
  /\ pcP = "fetch"
  /\ beStatus' = 0
  /\ beBody' = "throw"
  /\ Respond(500, "Internal server error")
  /\ UNCHANGED <<shared, varsS, varsF, varsH, varsT>>
  /\ UNCHANGED <<route, reqToken, reqBody, fwdToken, backendCalls>>

NextP ==
  \/ ChatRoute
  \/ TokenRoute
  \/ \E status \in BackendStatuses, body \in Bodies, error \in BackendErrors :
       BackendAnswers(status, body, error)
  \/ BackendThrows

\* a request has arrived at one of the routes; only /api/chat reads its body
InitP ==
  /\ page = "proxy"
  /\ lastEvent = "mount"
  /\ sends = 0
  /\ chatReqs = 0
  /\ srvConvs = <<>>
  /\ nextRid = 1
  /\ IdleS
  /\ IdleF
  /\ IdleH /\ pcH = "idle"
  /\ IdleT
  /\ route \in Routes
  /\ reqToken \in Tokens
  /\ reqBody \in (IF route = "chat" THEN Bodies ELSE {Null})
  /\ pcP = "received"
  /\ fwdToken = Null
  /\ backendCalls = 0
  /\ beStatus = 0
  /\ beBody = Null
  /\ respStatus = 0
  /\ respError = Null

SpecProxy == InitP /\ [][NextP]_vars


\* ----------------------------------------------------------------- claims
\* the chat requests in flight on either page
ChatsInFlight == {r \in reqsS : r.kind = "chat"} \cup {r \in reqs : r.kind = "chat"}

\* C1: in every reachable state at most one chat send request is in flight.
C1_AtMostOneSendInFlight == Cardinality(ChatsInFlight) <= 1

C3_NoStaleAnswerAfterFileChange ==
  \A i \in DOMAIN messages :
    (messages[i].role = "assistant" /\ messages[i].sid # 0) => messages[i].epoch = epoch

\* C4: no answer or apology of a send issued before a conversation switch (or
\* a new conversation) is in the transcript of the conversation selected now.
C4_NoStaleAnswerAfterConversationSwitch ==
  \A i \in DOMAIN messagesS :
    messagesS[i].role = "assistant" => messagesS[i].epoch = epochS

\* C5: the conversation id and the welcome or loaded messages always come from
\* a start or load request issued for the file selection current now.
C5_ResolutionTiedToSelectedFile ==
  /\ conversationId # Null => convEpoch = epoch
  /\ \A i \in DOMAIN messages : messages[i].sid = 0 => messages[i].epoch = epoch

\* C6: right after a file change the transcript is empty and the conversation
\* id is null, and the id leaves null only by the resolution that this file
\* change started.
C6_FileChangeResetsUntilResolved ==
  [][/\ lastEvent' = "fileChange" => (messages' = <<>> /\ conversationId' = Null)
     /\ (conversationId = Null /\ conversationId' # Null) => convEpoch' = epoch']_vars

\* C7: after a failed send the transcript ends with the user message of the
\* send followed by the assistant apology, and the pending flag is false.
C7_FailedSendAppendsApology ==
  lastEvent = "sendFailed" =>
    LET ms == IF page = "conv" THEN messagesS ELSE messages
        n == Len(ms)
    IN /\ n >= 2
       /\ ms[n - 1].role = "user"
       /\ ms[n].role = "assistant" /\ ms[n].content = Apology
       /\ ms[n].sid = ms[n - 1].sid
       /\ ~(IF page = "conv" THEN isLoadingS ELSE isLoading)

\* C8: the transcript is append-only outside explicit switches; as the claim
\* spells it out: no step other than a file change, a conversation switch, a
\* new conversation started by the user or an explicit resume removes or
\* moves a message the user has sent (sid > 0) and that is in the transcript.
UserMessagesKept(old, new) ==
  \A i \in DOMAIN old :
    (old[i].role = "user" /\ old[i].sid # 0) => (i \in DOMAIN new /\ new[i] = old[i])

C8_UserMessagesKept ==
  [][lastEvent' \notin {"fileChange", "conversationChange", "newConversationOk", "loadOk"}
       => (UserMessagesKept(messages, messages')
           /\ UserMessagesKept(messagesS, messagesS'))]_vars

\* C9: after a successful load of n >= 1 records the transcript has 2n
\* messages: for record i, user(question) at 2i-1 and assistant(response) at
\* 2i, both with the timestamp of the record.
C9_ResumeFlattensHistory ==
  (lastEvent = "loadOk" /\ Len(lastHistory) >= 1) =>
    /\ Len(messages) = 2 * Len(lastHistory)
    /\ \A i \in DOMAIN lastHistory :
         /\ messages[2 * i - 1].role = "user"
         /\ messages[2 * i - 1].content = lastHistory[i].question
         /\ messages[2 * i - 1].timestamp = lastHistory[i].timestamp
         /\ messages[2 * i].role = "assistant"
         /\ messages[2 * i].content = lastHistory[i].response
         /\ messages[2 * i].timestamp = lastHistory[i].timestamp

\* C9 witness: a load returned two different records.
C9_Witness ==
  /\ lastEvent = "loadOk"
  /\ Len(lastHistory) = 2
  /\ lastHistory[1] # lastHistory[2]

\* C10: a failed load of the explicit conversation id raises a notice and
\* starts a conversation; when that start succeeds the conversation id is the
\* id the backend just returned, not the explicit id, and a send is accepted.
C10_FailedResumeFallsBack ==
  /\ lastEvent = "loadFailed" =>
       /\ BagIn("Failed to load conversation history", notices)
       /\ \E r \in reqs : r.kind = "start" /\ r.conv = DeepId
  /\ lastEvent = "fallbackStartOk" =>
       /\ conversationId = srvConvs[1]
       /\ conversationId # DeepId
       /\ Trim(input) # "" => SendGuard

\* C10 witness: the fallback start succeeded after the failed load.
C10_Witness ==
  /\ lastEvent = "fallbackStartOk"
  /\ BagIn("Failed to load conversation history", notices)
  /\ conversationId = "c1"

\* the chat requests a step has issued
NewChats == {r \in reqs' \ reqs : r.kind = "chat"}
NewChatsS == {r \in reqsS' \ reqsS : r.kind = "chat"}

\* C11: a start-conversation call that fails with no conversation id set
\* leaves the id null and surfaces an error (a notice on the file chat page,
\* a message in the transcript on the conversation chat page, which has no
\* notices), and a send invoked right after it is rejected: no optimistic
\* message is appended and no request is issued.
C11_FailedStartRejectsSends ==
  [][/\ (page = "file" /\ conversationId = Null /\ reqs' # reqs
           /\ lastEvent' \in {"startFailed", "fallbackStartFailed"})
          => /\ conversationId' = Null
             /\ CopiesIn("Failed to start conversation", notices')
                  = CopiesIn("Failed to start conversation", notices) + 1
     /\ (page = "conv" /\ currentConversationId = Null /\ reqsS' # reqsS
           /\ lastEvent' \in {"sendFailed", "newConversationFailed"})
          => /\ currentConversationId' = Null
             /\ Len(messagesS') = Len(messagesS) + 1
     /\ (page = "conv" /\ lastEvent \in {"sendFailed", "newConversationFailed"}
           /\ currentConversationId = Null
           /\ lastEvent' \in {"submit", "submitRejected"})
          => (messagesS' = messagesS /\ reqsS' = reqsS)
     /\ (page = "file" /\ lastEvent \in {"startFailed", "fallbackStartFailed"}
           /\ conversationId = Null /\ lastEvent' \in {"send", "sendRejected"})
          => (messages' = messages /\ reqs' = reqs)]_vars

\* C12: once the load of the explicit conversation id and the fallback start
\* have both failed (both notices raised, no file change since), the
\* conversation id is null and no chat request carries the explicit id.
C12_UnboundAfterFailedResume ==
  (/\ epoch = 0
   /\ BagIn("Failed to load conversation history", notices)
   /\ BagIn("Failed to start conversation", notices))
    => /\ conversationId = Null
       /\ \A r \in reqs : r.kind = "chat" => r.conv # DeepId

\* C13 (as stated): a send invoked with a valid text, a selected file and no
\* send pending, while the conversation id is null, appends the optimistic
\* user message.
C13_SendStartsConversation ==
  [][/\ (page = "conv" /\ currentConversationId = Null /\ SubmitGuard
           /\ lastEvent' # lastEvent /\ lastEvent' \in {"submit", "submitRejected"})
          => messagesS' = Append(messagesS, UserMsgS(message, sends + 1, epochS))
     /\ (page = "file" /\ conversationId = Null /\ TextareaEnabled /\ Trim(input) # ""
           /\ lastEvent' # lastEvent /\ lastEvent' \in {"send", "sendRejected"})
          => messages' = Append(messages, Msg("user", input, Now, sends + 1, epoch))]_vars

\* C13 (amended): on the conversation chat page a send accepted while the
\* conversation id is null appends the optimistic user message and issues a
\* start request and no chat request; when the start succeeds the chat request
\* issued carries the id the backend returned, which is the conversation id
\* of the session then.  On the file chat page the same send is rejected.
C13_SubmitStartsConversation ==
  [][/\ (page = "conv" /\ currentConversationId = Null /\ SubmitGuard
           /\ lastEvent' # lastEvent /\ lastEvent' \in {"submit", "submitRejected"})
          => /\ messagesS' = Append(messagesS, UserMsgS(message, sends + 1, epochS))
             /\ NewChatsS = {}
             /\ \E r \in reqsS' \ reqsS :
                  /\ reqsS' = reqsS \cup {r}
                  /\ r.kind = "submitStart" /\ r.sid = sends + 1
     /\ (page = "conv" /\ srvConvs' # srvConvs /\ lastEvent' = "submitStartOk")
          => /\ currentConversationId' = srvConvs'[1]
             /\ srvConvs'[1] \notin Range(srvConvs)
             /\ \E r \in NewChatsS :
                  /\ NewChatsS = {r}
                  /\ r.conv = srvConvs'[1]
                  /\ \E i \in DOMAIN messagesS' :
                       messagesS'[i].role = "user" /\ messagesS'[i].sid = r.sid
     /\ (page = "file" /\ conversationId = Null
           /\ lastEvent' # lastEvent /\ lastEvent' \in {"send", "sendRejected"})
          => UNCHANGED <<messages, reqs, conversationId, srvConvs>>]_vars

\* C13 witness: a submit without a conversation id started conversation c1;
\* its chat request is in flight and its user message is in the transcript.
C13_Witness ==
  /\ lastEvent = "submitStartOk"
  /\ currentConversationId = "c1"
  /\ \E r \in reqsS : r.kind = "chat" /\ r.conv = "c1" /\ r.closureConv = Null
  /\ Len(messagesS) = 1 /\ messagesS[1].role = "user"

\* C14: the conversation id is set only once a start or a resume succeeded:
\* it is not the id of a resume that is still in flight or that has just
\* failed, and on the conversation chat page (which has no resume) it is null
\* as long as no start has been requested.
C14_ConversationIdOnlyAfterSuccess ==
  /\ \A r \in reqs : r.kind = "load" => conversationId # r.conv
  /\ lastEvent = "loadFailed" => conversationId # DeepId
  /\ (page = "conv" /\ sends = 0 /\ newConvs = 0) => currentConversationId = Null

\* C15: on the conversation chat page a conversation id that is set changes
\* only by a conversation switch or a new conversation of the user; neither a
\* list refresh nor a start response of a send replaces it.
C15_ConversationIdStable ==
  [][(currentConversationId # Null /\ currentConversationId' # currentConversationId)
       => lastEvent' \in {"conversationChange", "newConversationOk"}]_vars

\* the welcome messages the file chat page can synthesize
WelcomeTexts == {Welcome(n) : n \in {""} \cup {FileName(f) : f \in Range(FileList)}}

\* C16: right after a start-conversation call made on its own (not for a send
\* and not as the fallback of a resume) succeeded, the conversation id is the
\* id the backend returned and the transcript is exactly one assistant welcome
\* message; no request carries a welcome message.
C16_StartSeedsWelcome ==
  /\ lastEvent = "startOk" =>
       /\ conversationId = srvConvs[1]
       /\ Len(messages) = 1
       /\ messages[1].role = "assistant" /\ messages[1].content \in WelcomeTexts
  /\ lastEvent = "newConversationOk" =>
       /\ currentConversationId = srvConvs[1]
       /\ Len(messagesS) = 1
       /\ messagesS[1].role = "assistant"
  /\ \A r \in reqs \cup reqsS : r.text \notin WelcomeTexts

\* C17: a conversation switch sets the conversation id to an id of the
\* conversation list other than the current one, empties the transcript,
\* issues no request, and leaves the pending flag, the conversation list, the
\* input and the backend untouched.
C17_SwitchClearsWithoutReload ==
  [][(lastEvent' = "conversationChange" /\ epochS' # epochS)
       => /\ currentConversationId' \in Range(conversations) \ {currentConversationId}
          /\ messagesS' = <<>>
          /\ UNCHANGED <<reqsS, nextRid, isLoadingS, conversations, message, srvConvs,
                         sends, chatReqs>>]_vars

\* C17 witness: after two sends the user switched back to conversation c1;
\* the transcript is empty and nothing is in flight.
C17_Witness ==
  /\ lastEvent = "conversationChange"
  /\ sends = 2
  /\ currentConversationId = "c1" /\ conversations = <<"c2", "c1">>
  /\ messagesS = <<>> /\ reqsS = {} /\ ~isLoadingS

\* C18: a successful send leaves the embedding provider equal to the provider
\* the response carried, or unchanged when it carried none; a failed send
\* leaves it unchanged.
C18_ResponseProviderWins ==
  [][/\ (page = "file" /\ lastEvent' = "sendOk" /\ reqs' # reqs)
          => embeddingProvider' = IF lastProvider' # Null THEN lastProvider'
                                  ELSE embeddingProvider
     /\ (page = "file" /\ lastEvent' = "sendFailed" /\ reqs' # reqs)
          => embeddingProvider' = embeddingProvider]_vars

\* C18 witness: the user had changed the provider to openai, and the response
\* of the send carried local, which is the provider now.
C18_Witness ==
  /\ lastEvent = "sendOk"
  /\ BagIn("Embedding provider changed to openai", notices)
  /\ lastProvider = "local"
  /\ embeddingProvider = "local"

\* C19: a send invoked with a text that is empty after trimming, or with no
\* file selected, changes nothing: transcript, conversation id, pending flag
\* and input stay, no request is issued and no notice or apology is raised.
C19_BlankSendIsNoOp ==
  [][/\ (page = "file" /\ (Trim(input) = "" \/ selectedFile = Null)
           /\ lastEvent' # lastEvent /\ lastEvent' \in {"send", "sendRejected"})
          => UNCHANGED <<messages, conversationId, isLoading, input, reqs, notices,
                         nextRid, sends, chatReqs, srvConvs>>
     /\ (page = "conv" /\ Trim(message) = ""
           /\ lastEvent' # lastEvent
           /\ lastEvent' \in {"submit", "submitRejected", "resubmitRejected"})
          => UNCHANGED <<messagesS, currentConversationId, isLoadingS, message, reqsS,
                         nextRid, sends, chatReqs, srvConvs>>]_vars

\* C19 witness: with a file selected and a conversation id set, the user
\* typed a blank text and invoked the send, which was rejected.
C19_Witness ==
  /\ lastEvent = "sendRejected"
  /\ input = " "
  /\ selectedFile # Null /\ conversationId # Null /\ ~isLoading
  /\ notices = EmptyBag /\ {r \in reqs : r.kind = "chat"} = {}

\* the conversation ids of a list of headers or conversations, in order
IdsOf(list) == [i \in DOMAIN list |-> list[i].conversation_id]

\* the elements of list that started at time t, in order
StartedAt(list, t) == SelectSeq(list, LAMBDA c : GetTime(c.started_at) = t)

\* C20: after the history loaded, the conversations are in descending order of
\* start time, the conversations of one start time are in the order of their
\* headers, and every conversation has as many messages as there are records
\* with its conversation id.
C20_SortedStableCounted ==
  lastEvent = "historyOk" =>
    /\ \A i, j \in DOMAIN conversationsH :
         i < j => GetTime(conversationsH[i].started_at)
                    >= GetTime(conversationsH[j].started_at)
    /\ \A s \in StartTimes :
         IdsOf(StartedAt(conversationsH, GetTime(s)))
           = IdsOf(StartedAt(conversationsData, GetTime(s)))
    /\ \A k \in DOMAIN conversationsH :
         Len(conversationsH[k].messages)
           = Cardinality({i \in DOMAIN historyData :
                            historyData[i].conversation_id
                              = conversationsH[k].conversation_id})

\* C20 witness: the headers [c1 at day 1, c2 at day 2] and the records of
\* [c1, c2, c2] gave [c2 with 2 messages, c1 with 1 message].
C20_Witness ==
  /\ lastEvent = "historyOk"
  /\ conversationsData = <<[conversation_id |-> "c1", started_at |-> "2024-01-01"],
                           [conversation_id |-> "c2", started_at |-> "2024-01-02"]>>
  /\ IdsOf(historyData) = <<"c1", "c2", "c2">>
  /\ IdsOf(conversationsH) = <<"c2", "c1">>
  /\ Len(conversationsH[1].messages) = 2
  /\ Len(conversationsH[2].messages) = 1

\* the number of positions of list holding the header h
HeaderCount(list, h) ==
  Cardinality({i \in DOMAIN list :
                 /\ list[i].conversation_id = h.conversation_id
                 /\ list[i].started_at = h.started_at})

\* C21: after the history loaded there are as many conversations as headers,
\* every header occurs among them as often as among the headers, and a
\* conversation without records has the empty message sequence.
C21_OneConversationPerHeader ==
  lastEvent = "historyOk" =>
    /\ Len(conversationsH) = Len(conversationsData)
    /\ \A h \in Headers :
         HeaderCount(conversationsH, h) = HeaderCount(conversationsData, h)
    /\ \A k \in DOMAIN conversationsH :
         (\A i \in DOMAIN historyData :
            historyData[i].conversation_id # conversationsH[k].conversation_id)
           => conversationsH[k].messages = <<>>

\* C21 witness: of the headers [c1, c2] only c1 has a record; c2 is listed,
\* first as the most recent, with no messages.
C21_Witness ==
  /\ lastEvent = "historyOk"
  /\ conversationsData = <<[conversation_id |-> "c1", started_at |-> "2024-01-01"],
                           [conversation_id |-> "c2", started_at |-> "2024-01-02"]>>
  /\ IdsOf(historyData) = <<"c1">>
  /\ Len(conversationsH) = 2
  /\ conversationsH[1].conversation_id = "c2" /\ conversationsH[1].messages = <<>>
  /\ Len(conversationsH[2].messages) = 1

\* C22: after the history loaded, a record whose conversation_id matches no
\* header is among the messages of no conversation and adds no conversation,
\* and every record that matches a header is among the messages of the
\* conversations of that id.
C22_UnmatchedRecordsDropped ==
  lastEvent = "historyOk" =>
    /\ Range(IdsOf(conversationsH)) = Range(IdsOf(conversationsData))
    /\ \A i \in DOMAIN historyData :
         \A k \in DOMAIN conversationsH :
           (historyData[i] \in Range(conversationsH[k].messages))
             <=> (historyData[i].conversation_id = conversationsH[k].conversation_id)

\* C22 witness: the records are of c1, of an id without header, and of c1
\* again; the one conversation c1 holds the two records of c1.
C22_Witness ==
  /\ lastEvent = "historyOk"
  /\ IdsOf(conversationsData) = <<"c1">>
  /\ IdsOf(historyData) = <<"c1", OrphanId, "c1">>
  /\ Len(conversationsH) = 1
  /\ conversationsH[1].messages = <<historyData[1], historyData[3]>>

\* C23: after the history loaded, the messages of each conversation are the
\* records of its conversation_id, each once, in the order of the response.
C23_MessagesInBackendOrder ==
  lastEvent = "historyOk" =>
    \A k \in DOMAIN conversationsH :
      conversationsH[k].messages =
        SelectSeq(historyData,
                  LAMBDA r : r.conversation_id = conversationsH[k].conversation_id)

\* C23 witness: the records of c1 and c2 alternate; c1 holds the first and the
\* third in that order.
C23_Witness ==
  /\ lastEvent = "historyOk"
  /\ IdsOf(historyData) = <<"c1", "c2", "c1">>
  /\ \E k \in DOMAIN conversationsH :
       /\ conversationsH[k].conversation_id = "c1"
       /\ conversationsH[k].messages = <<historyData[1], historyData[3]>>
  /\ \E k \in DOMAIN conversationsH :
       /\ conversationsH[k].conversation_id = "c2"
       /\ conversationsH[k].messages = <<historyData[2]>>

\* C24: once listing the conversations or the history has failed, the
\* conversation list is empty, one "Failed to load history" notification is
\* shown, the loading flag is false and the load is over.
C24_FailedLoadEndsEmpty ==
  lastEvent = "historyFailed" =>
    /\ conversationsH = <<>>
    /\ CopiesIn("Failed to load history", noticesH) = 1
    /\ isLoadingH = FALSE
    /\ pcH = "done"

\* C24 witness: the conversations were listed, two of them, and the history
\* request failed; nothing of the two is shown.
C24_Witness ==
  /\ lastEvent = "historyFailed"
  /\ Len(conversationsData) = 2
  /\ conversationsH = <<>>
  /\ isLoadingH = FALSE

\* the welcome-back texts, one per file name a render can hold
WelcomeBackTexts == {WelcomeBack(n) : n \in {""} \cup {FileName(f) : f \in Range(FileList)}}

\* C28: after a load of the explicit conversation returned no record, the
\* transcript is one assistant welcome-back message, never sent to the
\* backend, and the conversation id is still the explicit id.
C28_EmptyResumeWelcomesBack ==
  (lastEvent = "loadOk" /\ lastHistory = <<>>) =>
    /\ Len(messages) = 1
    /\ messages[1].role = "assistant"
    /\ messages[1].content \in WelcomeBackTexts
    /\ messages[1].sid = 0
    /\ conversationId = DeepId

\* C26: whenever a chat request is in flight the loading flag of its page is
\* true: no other operation's completion clears the flag before the send
\* resolves.
C26_LoadingWhileSendInFlight ==
  /\ (\E r \in reqsS : r.kind = "chat") => isLoadingS
  /\ (\E r \in reqs : r.kind = "chat") => isLoading

\* is every message of send s1 before the user message of a later send s2,
\* and every reply after the user message of its own send, in transcript m
InSendOrder(m) ==
  \A i, j \in DOMAIN m :
    /\ (m[i].sid # 0 /\ m[j].role = "user" /\ m[i].sid < m[j].sid) => i < j
    /\ (m[i].role = "user" /\ m[j].role = "assistant" /\ m[i].sid # 0
        /\ m[i].sid = m[j].sid) => i < j

\* C27: the transcript follows the order of the sends: the user message and
\* the reply of an earlier send both precede the user message of a later
\* send, and each reply comes after the user message of its send.
C27_TranscriptInSendOrder ==
  InSendOrder(messagesS) /\ InSendOrder(messages)

\* C25: a chat request in flight is always resolved in the end, answered or
\* not: the send expires by itself and the session can send again.
C25_SendAlwaysResolves == (ChatsInFlight # {}) ~> (ChatsInFlight = {})

\* C29: the toasts displayed have pairwise distinct ids, so that hiding by id
\* removes one toast only.
C29_ToastIdsDistinct ==
  \A i, j \in DOMAIN toasts : i # j => toasts[i].id # toasts[j].id

\* C30: once a route has answered: a request without Authorization header got
\* 401 and the backend was not contacted; a backend that was contacted got
\* the token of the request unchanged; a backend answer that is not ok gave
\* its status to the response, and a backend call that threw gave 500.
C30_ProxyAuthAndStatus ==
  pcP = "done" =>
    /\ reqToken = Null => (respStatus = 401 /\ backendCalls = 0)
    /\ backendCalls > 0 => fwdToken = reqToken
    /\ (beBody = "json" /\ ~Ok(beStatus)) => respStatus = beStatus
    /\ beBody \in {"throw", "garbage"} => respStatus = 500

=============================================================================
